---- MODULE Spec2Model ----
(***************************************************************************)
(* Model of the rust-daily registry API (src/src/lib.rs): Tablet, Shards,   *)
(* Transcriptor (segmentation, line_fmt, read) and Registry (tablet,        *)
(* catalog, heap), over a small file system of text documents.              *)
(*                                                                          *)
(* Strings are sequences of one-character strings.  Line indices are        *)
(* zero-based as in the source; line i of a document doc is doc[i + 1].     *)
(* usize is a machine word of WordBits bits.  Arithmetic overflow panics    *)
(* when the build has overflow checks (debug profile) and wraps otherwise   *)
(* (release profile); the build is chosen in Init.                          *)
(***************************************************************************)
EXTENDS Integers, Sequences, FiniteSets, TLC

---------------------------------------------------------------------------
(* Bounds of the model *)

\* total number of lines over all documents of the registry
MaxLines == 3

\* width of usize in bits
WordBits == 8

Modulus == 2 ^ WordBits

USIZE_MAX == Modulus - 1

---------------------------------------------------------------------------
(* Strings: str::contains, str::replace, str::trim *)

WHITESPACE == {" ", "\t", "\n", "\r"}

\* does pat occur in s at (1-based) position i
MatchAt(s, pat, i) ==
    /\ i + Len(pat) - 1 <= Len(s)
    /\ \A k \in 1..Len(pat) : s[i + k - 1] = pat[k]

\* str::contains
Contains(s, pat) == \E i \in 1..(Len(s) + 1) : MatchAt(s, pat, i)

RECURSIVE ReplaceFrom(_, _, _, _)
ReplaceFrom(s, from, to, i) ==
    IF i > Len(s) THEN << >>
    ELSE IF MatchAt(s, from, i)
         THEN to \o ReplaceFrom(s, from, to, i + Len(from))
         ELSE << s[i] >> \o ReplaceFrom(s, from, to, i + 1)

\* str::replace: every non-overlapping match, left to right
Replace(s, from, to) == ReplaceFrom(s, from, to, 1)

RECURSIVE TrimStart(_)
TrimStart(s) ==
    IF s # << >> /\ Head(s) \in WHITESPACE THEN TrimStart(Tail(s)) ELSE s

RECURSIVE TrimEnd(_)
TrimEnd(s) ==
    IF s # << >> /\ s[Len(s)] \in WHITESPACE
    THEN TrimEnd(SubSeq(s, 1, Len(s) - 1)) ELSE s

\* str::trim
Trim(s) == TrimEnd(TrimStart(s))

---------------------------------------------------------------------------
(* Tokens of the source *)

SEPARATOR == << "-", "-", "-", "-", "-" >>

DOC_MARKER == << "/", "/", "!" >>

\* the backtick character
BQ == "bq"

FENCE == << BQ, BQ, BQ >>

FENCE_SHOULD_PANIC ==
    FENCE \o << "s", "h", "o", "u", "l", "d", "_", "p", "a", "n", "i", "c" >>

FENCE_NO_RUN == FENCE \o << "n", "o", "_", "r", "u", "n" >>

FENCE_RUST == FENCE \o << "r", "u", "s", "t" >>

\* a byte sequence that is not valid UTF-8: reading the line fails
BAD_BYTE == "invalid-utf8"

Unreadable(line) == Contains(line, << BAD_BYTE >>)

TABLET_UNREADABLE_MSG == "The tablet is expected to be readable!"

\* the fixed list of document paths
TABLETS == << "src/registry/ownership.rs", "src/registry/strings.rs" >>

Paths == { TABLETS[i] : i \in 1..Len(TABLETS) }

\* the lines the i-th document is made of: a line with text, a separator
\* line, and a line that cannot be decoded
LineSet(i) ==
    IF i = 1
    THEN { DOC_MARKER \o << " " >> \o FENCE_NO_RUN,
           DOC_MARKER \o << " " >> \o SEPARATOR,
           << "b", BAD_BYTE >> }
    ELSE { << " " >> \o FENCE_SHOULD_PANIC \o << " " >>,
           SEPARATOR \o << "-", "-" >>,
           << BAD_BYTE >> }

---------------------------------------------------------------------------
VARIABLES
    files,            \* path -> [exists, lines]: the documents on disk
    overflow_checks,  \* the build panics on arithmetic overflow (else wraps)
    cur,              \* the Document Reference the caller holds
    iter,             \* the Shards iterator the caller holds, and all the
                      \* segments it started with
    ret,              \* the outcome of the last call
    memo              \* the first outcome of read the caller has seen

vars == << files, overflow_checks, cur, iter, ret, memo >>

---------------------------------------------------------------------------
(* Outcomes: a value, an io::Error, or a panic *)

Ok(v) == [st |-> "ok", v |-> v]

Err == [st |-> "err", v |-> << >>]

Panic == [st |-> "panic", v |-> << >>]

\* usize subtraction
Sub(a, b) ==
    IF a >= b THEN [st |-> "ok", v |-> a - b]
    ELSE IF overflow_checks THEN [st |-> "panic", v |-> 0]
    ELSE [st |-> "ok", v |-> a - b + Modulus]

\* usize addition
Add(a, b) ==
    IF a + b <= USIZE_MAX THEN [st |-> "ok", v |-> a + b]
    ELSE IF overflow_checks THEN [st |-> "panic", v |-> 0]
    ELSE [st |-> "ok", v |-> (a + b) % Modulus]

---------------------------------------------------------------------------
(* Tablet *)

Tablet(path, range) == [path |-> path, start |-> range[1], end |-> range[2]]

\* Tablet::length: self.end() - self.start() + 1
length(tablet) ==
    LET d == Sub(tablet.end, tablet.start)
    IN  IF d.st = "panic" THEN d ELSE Add(d.v, 1)

\* File::open
Open(path) == IF files[path].exists THEN Ok(files[path].lines) ELSE Err

---------------------------------------------------------------------------
(* Transcriptor *)

\* Transcriptor::line_fmt
line_fmt(line) ==
    Trim(Replace(Replace(Replace(line, DOC_MARKER, << >>),
                         FENCE_SHOULD_PANIC, FENCE_RUST),
                 FENCE_NO_RUN, FENCE_RUST))
    \o << "\n" >>

\* the end of the segment a separator at enumeration index num closes
SegEnd(num) == Sub(num, 1)

\* NextPtr with the separator line left in the segment that follows
NextPtrKeepsSeparator(num) == Add(num, 0)

\* the cursor after a separator at enumeration index num
NextPtr(num) == Add(num, 1)

\* LastSegment with the end taken as exclusive
LastSegmentExclusive(ptr, tablet) ==
    << ptr, IF tablet.end > ptr THEN tablet.end - 1 ELSE tablet.end >>

\* the segment pushed when the window is exhausted
LastSegment(ptr, tablet) == << ptr, tablet.end >>

\* the loop of Transcriptor::segmentation over
\* lines().skip(start).take(n).enumerate(), at enumeration index num
RECURSIVE SegLoop(_, _, _, _, _, _)
SegLoop(lines, tablet, n, num, ptr, segments) ==
    IF num >= n \/ tablet.start + num >= Len(lines)
    THEN Ok(Append(segments, LastSegment(ptr, tablet)))
    ELSE LET line == lines[tablet.start + num + 1]
         IN  IF Unreadable(line) THEN Err
             ELSE IF Contains(line, SEPARATOR)
             THEN LET e == SegEnd(num)
                      p == NextPtr(num)
                  IN  IF e.st = "panic" \/ p.st = "panic" THEN Panic
                      ELSE SegLoop(lines, tablet, n, num + 1, p.v,
                                   Append(segments, << ptr, e.v >>))
             ELSE SegLoop(lines, tablet, n, num + 1, ptr, segments)

\* segmentation with the cursor started at the top of the document
segmentationPtrZero(tablet) ==
    LET data == Open(tablet.path)
        n == length(tablet)
    IN  IF data.st = "err" THEN Err
        ELSE IF n.st = "panic" THEN Panic
        ELSE SegLoop(data.v, tablet, n.v, 0, 0, << >>)

\* Transcriptor::segmentation
segmentation(tablet) ==
    LET data == Open(tablet.path)
        n == length(tablet)
    IN  IF data.st = "err" THEN Err
        ELSE IF n.st = "panic" THEN Panic
        ELSE SegLoop(data.v, tablet, n.v, 0, tablet.start, << >>)

\* the loop of Transcriptor::read over lines().skip(start).take(n)
RECURSIVE ReadLoop(_, _, _, _, _)
ReadLoop(lines, tablet, n, k, contents) ==
    IF k >= n \/ tablet.start + k >= Len(lines)
    THEN Ok(Trim(contents))
    ELSE LET line == lines[tablet.start + k + 1]
         IN  IF Unreadable(line) THEN Err
             ELSE ReadLoop(lines, tablet, n, k + 1, contents \o line_fmt(line))

\* Transcriptor::read
read(tablet) ==
    LET data == Open(tablet.path)
        n == length(tablet)
    IN  IF data.st = "err" THEN Err
        ELSE IF n.st = "panic" THEN Panic
        ELSE ReadLoop(data.v, tablet, n.v, 0, << >>)

---------------------------------------------------------------------------
(* Shards *)

None == << >>

Some(x) == << x >>

\* ShardsFrom with the iterator of the same Tablet kept and handed out again
ShardsFromCached(tablet) ==
    LET r == segmentation(tablet)
    IN  IF iter # << >> /\ iter[1].it.origin = tablet THEN Ok(iter[1].it)
        ELSE IF r.st = "ok" THEN Ok([origin |-> tablet, segments |-> r.v])
        ELSE Panic

\* impl From<Tablet> for Shards: segmentation(..).expect(TABLET_UNREADABLE_MSG)
ShardsFrom(tablet) ==
    LET r == segmentation(tablet)
    IN  IF r.st = "ok" THEN Ok([origin |-> tablet, segments |-> r.v])
        ELSE Panic

\* Tablet::shards
shards(tablet) == ShardsFrom(tablet)

\* Shards::next, the item it returns
ShardsNext(it) ==
    IF it.segments = << >> THEN None
    ELSE Some(Tablet(it.origin.path, Head(it.segments)))

\* Shards::next, the iterator it leaves
ShardsRest(it) ==
    IF it.segments = << >> THEN it
    ELSE [it EXCEPT !.segments = Tail(it.segments)]

\* Iterator::collect of a Shards
RECURSIVE Collect(_)
Collect(it) ==
    IF ShardsNext(it) = None THEN << >>
    ELSE ShardsNext(it) \o Collect(ShardsRest(it))

---------------------------------------------------------------------------
(* Registry *)

\* Registry::tablet
RegistryTablet(path) ==
    LET data == Open(path)
    IN  IF data.st = "err" THEN Panic
        ELSE LET last == Sub(Len(data.v), 1)
             IN  IF last.st = "panic" THEN Panic
                 ELSE Ok(Tablet(path, << 0, last.v >>))

\* TABLETS.iter().map(|&path| Self::tablet(path)).collect()
RECURSIVE MapTablet(_)
MapTablet(paths) ==
    IF paths = << >> THEN Ok(<< >>)
    ELSE LET t == RegistryTablet(Head(paths))
         IN  IF t.st = "panic" THEN Panic
             ELSE LET rest == MapTablet(Tail(paths))
                  IN  IF rest.st = "panic" THEN Panic
                      ELSE Ok(<< t.v >> \o rest.v)

\* Registry::catalog
catalog == MapTablet(TABLETS)

\* .iter().flat_map(|tablet| tablet.shards()).collect()
RECURSIVE FlatMapShards(_)
FlatMapShards(tablets) ==
    IF tablets = << >> THEN Ok(<< >>)
    ELSE LET it == shards(Head(tablets))
         IN  IF it.st = "panic" THEN Panic
             ELSE LET rest == FlatMapShards(Tail(tablets))
                  IN  IF rest.st = "panic" THEN Panic
                      ELSE Ok(Collect(it.v) \o rest.v)

RECURSIVE Reversed(_)
Reversed(seq) ==
    IF seq = << >> THEN << >> ELSE Reversed(Tail(seq)) \o << Head(seq) >>

\* heap with the documents taken last to first
heapLastFirst ==
    LET c == catalog
    IN  IF c.st = "panic" THEN Panic ELSE FlatMapShards(Reversed(c.v))

\* Registry::heap
heap ==
    LET c == catalog
    IN  IF c.st = "panic" THEN Panic ELSE FlatMapShards(c.v)

---------------------------------------------------------------------------
(* The caller: a program that uses the public API step by step.  A panic   *)
(* ends it.                                                                *)

Running == ret.st # "panic"

Call(op, arg, r) == [op |-> op, arg |-> arg, st |-> r.st, v |-> r.v]

\* the caller remembers the first outcome of read, and whether it has
\* read the same Document Reference again since
Remember(arg, r) ==
    IF memo = None
    THEN Some([arg |-> arg, st |-> r.st, v |-> r.v, again |-> FALSE])
    ELSE IF memo[1].arg = arg THEN Some([memo[1] EXCEPT !.again = TRUE])
    ELSE memo

\* let c = Registry::catalog(); the caller keeps c[i]
Catalog(i) ==
    /\ Running
    /\ LET c == catalog
       IN  /\ ret' = Call("catalog", None, c)
           /\ cur' = IF c.st = "ok" THEN Some(c.v[i]) ELSE cur
    /\ UNCHANGED << files, overflow_checks, iter, memo >>

\* Registry::heap()
Heap ==
    /\ Running
    /\ ret' = Call("heap", None, heap)
    /\ UNCHANGED << files, overflow_checks, cur, iter, memo >>

\* let iter = cur.shards()
Shards ==
    /\ Running
    /\ cur # None
    /\ LET r == shards(cur[1])
       IN  /\ ret' = Call("shards", cur, r)
           /\ iter' = IF r.st = "ok"
                      THEN Some([it |-> r.v, all |-> r.v.segments])
                      ELSE iter
    /\ UNCHANGED << files, overflow_checks, cur, memo >>

\* iter.next(); the caller keeps the item
Next_ ==
    /\ Running
    /\ iter # None
    /\ LET item == ShardsNext(iter[1].it)
       IN  /\ ret' = Call("next", Some(iter[1].it.origin), Ok(item))
           /\ iter' = Some([iter[1] EXCEPT !.it = ShardsRest(@)])
           /\ cur' = IF item = None THEN cur ELSE item
    /\ UNCHANGED << files, overflow_checks, memo >>

\* Transcriptor::read(&cur)
Read ==
    /\ Running
    /\ cur # None
    /\ LET r == read(cur[1])
       IN  /\ ret' = Call("read", cur, r)
           /\ memo' = Remember(cur[1], r)
    /\ UNCHANGED << files, overflow_checks, cur, iter >>

---------------------------------------------------------------------------
(* Specifications *)

\* the documents: at most MaxLines lines in all
FileSystems ==
    UNION { UNION { { [p \in Paths |->
                        IF p = TABLETS[1] THEN [exists |-> e[1], lines |-> d1]
                        ELSE [exists |-> e[2], lines |-> d2]] :
                      d1 \in [1..n1 -> LineSet(1)], d2 \in [1..n2 -> LineSet(2)],
                      e \in { x \in [1..2 -> BOOLEAN] :
                                /\ ~x[1] => n1 = 0
                                /\ ~x[2] => n2 = 0 } } :
                    n2 \in 0..(MaxLines - n1) } :
            n1 \in 0..MaxLines }

InitFiles ==
    /\ files \in FileSystems
    /\ overflow_checks \in BOOLEAN
    /\ iter = None
    /\ ret = Call("start", None, Ok(<< >>))
    /\ memo = None

\* a program that uses the public API alone
Init ==
    /\ InitFiles
    /\ cur = None

\* code inside the crate can build any Tablet: here every one that meets
\* start <= end < the line count of its document
InitCrate ==
    /\ InitFiles
    /\ \E i \in 1..Len(TABLETS) :
       \E s \in 0..MaxLines, e \in 0..MaxLines :
          /\ files[TABLETS[i]].exists
          /\ s <= e
          /\ e < Len(files[TABLETS[i]].lines)
          /\ cur = Some(Tablet(TABLETS[i], << s, e >>))

Next ==
    \/ \E i \in 1..Len(TABLETS) : Catalog(i)
    \/ Heap
    \/ Shards
    \/ Next_
    \/ Read

Spec == Init /\ [][Next]_vars

SpecCrate == InitCrate /\ [][Next]_vars

---------------------------------------------------------------------------
(* Properties *)

Lines(path) == files[path].lines

\* line i (zero-based) of the document exists and contains the separator
SepAt(path, i) ==
    /\ i < Len(Lines(path))
    /\ Contains(Lines(path)[i + 1], SEPARATOR)

\* t is the reference the Catalog makes for a document: [0, lineCount - 1]
WholeDoc(t) ==
    /\ files[t.path].exists
    /\ t.start = 0
    /\ t.end = (Len(Lines(t.path)) - 1 + Modulus) % Modulus

\* the call r was shards() and it returned
Segmented(r) == r.op = "shards" /\ r.st = "ok"

\* the call r was shards() on a whole-document reference and it returned
SegmentedWhole(r) == Segmented(r) /\ WholeDoc(r.arg[1])

C2_WellFormed ==
    cur # None =>
        /\ files[cur[1].path].exists
        /\ cur[1].start <= cur[1].end
        /\ cur[1].end < Len(Lines(cur[1].path))

\* the segments the claim C3 describes: a separator at absolute index i
\* closes [ptr, i - 1] and sets ptr = i + 1; ptr starts at R.start; the
\* window is the n lines from R.start on
RECURSIVE AbsoluteSegments(_, _, _, _, _)
AbsoluteSegments(R, n, i, ptr, segs) ==
    IF i >= R.start + n \/ i >= Len(Lines(R.path))
    THEN Append(segs, << ptr, R.end >>)
    ELSE IF SepAt(R.path, i)
         THEN AbsoluteSegments(R, n, i + 1, (i + 1) % Modulus,
                               Append(segs, << ptr, (i - 1 + Modulus) % Modulus >>))
         ELSE AbsoluteSegments(R, n, i + 1, ptr, segs)

C4_SeparatorElimination ==
    SegmentedWhole(ret) =>
        \A k \in 1..Len(ret.v.segments) :
            LET S == Tablet(ret.arg[1].path, ret.v.segments[k])
            IN  /\ \A i \in 0..(Len(Lines(S.path)) - 1) :
                      (S.start <= i /\ i <= S.end) => ~SepAt(S.path, i)
                /\ read(S).st = "ok" => ~Contains(read(S).v, SEPARATOR)

NoSeparator(path) == \A i \in 0..(Len(Lines(path)) - 1) : ~SepAt(path, i)

\* C5: segmenting a reference R over a document with no separator line
\* yields exactly one segment, [R.start, R.end].
C5_NoSeparatorOneSegment ==
    (Segmented(ret) /\ NoSeparator(ret.arg[1].path)) =>
        ret.v.segments = << << ret.arg[1].start, ret.arg[1].end >> >>

\* a document of two lines or more and no separator has been segmented
C5_Witness ==
    /\ Segmented(ret)
    /\ NoSeparator(ret.arg[1].path)
    /\ Len(Lines(ret.arg[1].path)) >= 2

\* the whole-document reference of the i-th path
WholeTablet(i) ==
    Tablet(TABLETS[i],
           << 0, (Len(Lines(TABLETS[i])) - 1 + Modulus) % Modulus >>)

\* the sub-ranges as Document References over path
AsShards(path, segs) == [k \in 1..Len(segs) |-> Tablet(path, segs[k])]

\* the shards of the documents i, i + 1, ... of the path list, in that order
RECURSIVE ShardsFromDoc(_)
ShardsFromDoc(i) ==
    IF i > Len(TABLETS) THEN << >>
    ELSE AsShards(TABLETS[i], segmentation(WholeTablet(i)).v)
         \o ShardsFromDoc(i + 1)

\* the number of shards of the documents before the i-th
ShardsBefore(i) == Len(ShardsFromDoc(1)) - Len(ShardsFromDoc(i))

\* C6: heap() is the shards of the catalog's references, document after
\* document in the order of the path list, each document's shards in line
\* order: the shards that shards() computed for the i-th catalog reference
\* are the heap's items after those of the documents before it, and the
\* first shard of the first catalog reference is the heap's first item.
C6_HeapIsCatalogShards ==
    (ret.op = "heap" /\ ret.st = "ok") =>
        /\ ret.v = ShardsFromDoc(1)
        /\ \A i \in 1..Len(TABLETS) :
              (iter # None /\ iter[1].it.origin = WholeTablet(i)) =>
                  /\ SubSeq(ret.v, ShardsBefore(i) + 1,
                            ShardsBefore(i) + Len(iter[1].all))
                       = AsShards(TABLETS[i], iter[1].all)
                  /\ i = 1 => ret.v[1] = Tablet(TABLETS[1], iter[1].all[1])

\* heap() returned while the caller holds the shards of the second document,
\* and both documents have shards of their own
C6_Witness ==
    /\ ret.op = "heap"
    /\ ret.st = "ok"
    /\ iter # None
    /\ iter[1].it.origin = WholeTablet(2)
    /\ ShardsBefore(2) >= 2
    /\ Len(ret.v) > ShardsBefore(2)

\* the steps of rendering as the claim C7 lists them
RenderedLine(line) ==
    LET unmarked == Replace(line, DOC_MARKER, << >>)
        plain == Replace(Replace(unmarked, FENCE_SHOULD_PANIC, FENCE_RUST),
                         FENCE_NO_RUN, FENCE_RUST)
    IN  Trim(plain) \o << "\n" >>

\* the rendered lines i .. last of a document, concatenated
RECURSIVE RenderedFrom(_, _, _)
RenderedFrom(path, i, last) ==
    IF i > last \/ i >= Len(Lines(path)) THEN << >>
    ELSE RenderedLine(Lines(path)[i + 1]) \o RenderedFrom(path, i + 1, last)

\* C7: the output of rendering R is the lines at the indices R.start..R.end
\* of the file, in order, each with the doc-comment marker removed, the fence
\* annotations replaced, trimmed and ended by a newline, the whole trimmed.
C7_ReadRendersRange ==
    (ret.op = "read" /\ ret.st = "ok") =>
        ret.v = Trim(RenderedFrom(ret.arg[1].path, ret.arg[1].start,
                                  ret.arg[1].end))

\* the document of R cannot be opened, or a line of R cannot be read
CannotRead(R) ==
    \/ ~files[R.path].exists
    \/ \E i \in 0..(Len(Lines(R.path)) - 1) :
          /\ R.start <= i
          /\ i <= R.end
          /\ Unreadable(Lines(R.path)[i + 1])

\* C8: when the document cannot be opened or a line cannot be read,
\* shards() returns an I/O error to the caller; it does not abort.
C8_ShardsPropagatesError ==
    (ret.op = "shards" /\ CannotRead(ret.arg[1])) => ret.st = "err"

Readable(path) ==
    /\ files[path].exists
    /\ \A i \in 0..(Len(Lines(path)) - 1) : ~Unreadable(Lines(path)[i + 1])

\* C10: when the first line of the window of R is a separator, segmentation
\* returns and its first segment ends one before it starts, computed without
\* overflow or abort; a segment between adjacent separators ends one before
\* it starts and its length() is 0.
C10_DegenerateWithoutOverflow ==
    /\ ( /\ ret.op = "shards"
         /\ Readable(ret.arg[1].path)
         /\ ret.arg[1].start <= ret.arg[1].end
         /\ SepAt(ret.arg[1].path, ret.arg[1].start) )
       => /\ ret.st = "ok"
          /\ ret.v.segments[1][2] = ret.v.segments[1][1] - 1
    /\ SegmentedWhole(ret) =>
          \A i \in 0..(Len(Lines(ret.arg[1].path)) - 2) :
              (SepAt(ret.arg[1].path, i) /\ SepAt(ret.arg[1].path, i + 1)) =>
                  \E k \in 1..Len(ret.v.segments) :
                      /\ ret.v.segments[k] = << i + 1, i >>
                      /\ length(Tablet(ret.arg[1].path, ret.v.segments[k]))
                           = [st |-> "ok", v |-> 0]

\* the separator lines of the document are neither its first line, nor its
\* last, nor next to one another
WellSeparated(path) ==
    /\ ~SepAt(path, 0)
    /\ Len(Lines(path)) > 0 => ~SepAt(path, Len(Lines(path)) - 1)
    /\ \A i \in 0..(Len(Lines(path)) - 2) :
          ~(SepAt(path, i) /\ SepAt(path, i + 1))

\* the shards that shards() yields on the catalog's reference for path
FirstLevelShards(path) ==
    LET t == RegistryTablet(path)
    IN  IF t.st # "ok" THEN {}
        ELSE LET it == shards(t.v)
             IN  IF it.st # "ok" THEN {}
                 ELSE { Collect(it.v)[k] : k \in 1..Len(Collect(it.v)) }

\* C11: over a document whose separator lines are neither first, last nor
\* adjacent, shards() on a shard S that shards() yielded for the catalog's
\* reference returns and yields exactly one item, S itself; and every item
\* that next() yields along a chain catalog -> shards -> shards -> ... is
\* one of the first-level shards of the document.
C11_ShardsIdempotent ==
    /\ ( /\ ret.op = "shards"
         /\ WellSeparated(ret.arg[1].path)
         /\ ret.arg[1] \in FirstLevelShards(ret.arg[1].path) )
       => /\ ret.st = "ok"
          /\ Collect(ret.v) = << ret.arg[1] >>
    /\ ( /\ ret.op = "next"
         /\ ret.v # None
         /\ WellSeparated(ret.v[1].path) )
       => ret.v[1] \in FirstLevelShards(ret.v[1].path)

\* shards() has been called on a first-level shard that starts after a
\* separator line of a document whose separators are well placed
C11_Witness ==
    /\ ret.op = "shards"
    /\ WellSeparated(ret.arg[1].path)
    /\ ret.arg[1] \in FirstLevelShards(ret.arg[1].path)
    /\ ret.arg[1].start > 0
    /\ SepAt(ret.arg[1].path, ret.arg[1].start - 1)

====
